---- MODULE Spec2Model ----
(***************************************************************************)
(* The lexer of src/parser/lexer.rs as a state machine.  A character is a  *)
(* one-character string; two characters outside ASCII are written by code  *)
(* point ("U+00E9", a letter; "U+00A0", a space).  The source text is a    *)
(* sequence of characters, fixed at construction; every step is one call   *)
(* of Lexer::next_token.                                                   *)
(***************************************************************************)
EXTENDS Integers, Sequences, FiniteSets, TLC

VARIABLES
    input,                   \* the characters behind Lexer.input
    consumed,                \* how many of them input.next() has handed out
    current_chr,
    previous_chr,
    row,
    column,
    current_char_processed,
    results,                 \* outcome of every next_token call, in order
    spans,                   \* per call: the input positions it looked at
    handler,                 \* per call: the handler next_token routed to
    positions                \* per call: row and column at entry, at the
                             \* dispatch and at the return

vars == <<input, consumed, current_chr, previous_chr, row, column,
          current_char_processed, results, spans, handler, positions>>

\* Option::None of current_chr / previous_chr / peek()
None == "None"

SEMICOLON == ";"
DOUBLE_QUOTES == "\""
SINGLE_QUOTES == "'"
UNDERSCORE == "_"
BYTES_PREFIX == "b"
DOT_SEPERATOR == "."

----------------------------------------------------------------------------
(* Character classes of the Rust standard library                          *)

AsciiLetters == {
    "a", "b", "c", "d", "e", "f", "g", "h", "i", "j", "k", "l", "m", "n",
    "o", "p", "q", "r", "s", "t", "u", "v", "w", "x", "y", "z", "A", "B",
    "C", "D", "E", "F", "G", "H", "I", "J", "K", "L", "M", "N", "O", "P",
    "Q", "R", "S", "T", "U", "V", "W", "X", "Y", "Z" }

DigitValue ==
    ("0" :> 0) @@ ("1" :> 1) @@ ("2" :> 2) @@ ("3" :> 3) @@ ("4" :> 4) @@
    ("5" :> 5) @@ ("6" :> 6) @@ ("7" :> 7) @@ ("8" :> 8) @@ ("9" :> 9)

AsciiDigits == DOMAIN DigitValue

\* char::is_whitespace: the Unicode White_Space property
WhiteSpace == {" ", "\t", "\n", "\r", "\f", "U+000B", "U+00A0"}

\* str::as_bytes: the UTF-8 encoding of every character of the model
Utf8 ==
    (" " :> <<32>>) @@ ("!" :> <<33>>) @@ ("\"" :> <<34>>) @@
    ("#" :> <<35>>) @@ ("$" :> <<36>>) @@ ("%" :> <<37>>) @@
    ("&" :> <<38>>) @@ ("'" :> <<39>>) @@ ("(" :> <<40>>) @@
    (")" :> <<41>>) @@ ("*" :> <<42>>) @@ ("+" :> <<43>>) @@
    ("," :> <<44>>) @@ ("-" :> <<45>>) @@ ("." :> <<46>>) @@
    ("/" :> <<47>>) @@ ("0" :> <<48>>) @@ ("1" :> <<49>>) @@
    ("2" :> <<50>>) @@ ("3" :> <<51>>) @@ ("4" :> <<52>>) @@
    ("5" :> <<53>>) @@ ("6" :> <<54>>) @@ ("7" :> <<55>>) @@
    ("8" :> <<56>>) @@ ("9" :> <<57>>) @@ (":" :> <<58>>) @@
    (";" :> <<59>>) @@ ("<" :> <<60>>) @@ ("=" :> <<61>>) @@
    (">" :> <<62>>) @@ ("?" :> <<63>>) @@ ("@" :> <<64>>) @@
    ("A" :> <<65>>) @@ ("B" :> <<66>>) @@ ("C" :> <<67>>) @@
    ("D" :> <<68>>) @@ ("E" :> <<69>>) @@ ("F" :> <<70>>) @@
    ("G" :> <<71>>) @@ ("H" :> <<72>>) @@ ("I" :> <<73>>) @@
    ("J" :> <<74>>) @@ ("K" :> <<75>>) @@ ("L" :> <<76>>) @@
    ("M" :> <<77>>) @@ ("N" :> <<78>>) @@ ("O" :> <<79>>) @@
    ("P" :> <<80>>) @@ ("Q" :> <<81>>) @@ ("R" :> <<82>>) @@
    ("S" :> <<83>>) @@ ("T" :> <<84>>) @@ ("U" :> <<85>>) @@
    ("V" :> <<86>>) @@ ("W" :> <<87>>) @@ ("X" :> <<88>>) @@
    ("Y" :> <<89>>) @@ ("Z" :> <<90>>) @@ ("[" :> <<91>>) @@
    ("\\" :> <<92>>) @@ ("]" :> <<93>>) @@ ("^" :> <<94>>) @@
    ("_" :> <<95>>) @@ ("a" :> <<97>>) @@ ("b" :> <<98>>) @@
    ("c" :> <<99>>) @@ ("d" :> <<100>>) @@ ("e" :> <<101>>) @@
    ("f" :> <<102>>) @@ ("g" :> <<103>>) @@ ("h" :> <<104>>) @@
    ("i" :> <<105>>) @@ ("j" :> <<106>>) @@ ("k" :> <<107>>) @@
    ("l" :> <<108>>) @@ ("m" :> <<109>>) @@ ("n" :> <<110>>) @@
    ("o" :> <<111>>) @@ ("p" :> <<112>>) @@ ("q" :> <<113>>) @@
    ("r" :> <<114>>) @@ ("s" :> <<115>>) @@ ("t" :> <<116>>) @@
    ("u" :> <<117>>) @@ ("v" :> <<118>>) @@ ("w" :> <<119>>) @@
    ("x" :> <<120>>) @@ ("y" :> <<121>>) @@ ("z" :> <<122>>) @@
    ("{" :> <<123>>) @@ ("|" :> <<124>>) @@ ("}" :> <<125>>) @@
    ("~" :> <<126>>) @@ ("\t" :> <<9>>) @@ ("\n" :> <<10>>) @@
    ("\r" :> <<13>>) @@ ("\f" :> <<12>>) @@ ("U+000B" :> <<11>>) @@
    ("U+00A0" :> <<194, 160>>) @@ ("U+00E9" :> <<195, 169>>)

Chars == DOMAIN Utf8

----------------------------------------------------------------------------
(* Tokens and results                                                      *)

Tok(t) == [type |-> t]
Symbol(s) == [type |-> "Symbol", name |-> s]
IntValue(n) == [type |-> "IntValue", ivalue |-> n]
FloatValue(f) == [type |-> "FloatValue", fvalue |-> f]
StringValue(s) == [type |-> "StringValue", svalue |-> s]
CharValue(c) == [type |-> "CharValue", cvalue |-> c]
BoolValue(b) == [type |-> "BoolValue", bvalue |-> b]
BytesValue(bs) == [type |-> "BytesValue", bytes |-> bs]

Ok(tok) == [kind |-> "Ok", token |-> tok]
Err(msg) == [kind |-> "Err", message |-> msg]
\* Option::unwrap on None aborts the call: nothing is returned
Panic(msg) == [kind |-> "Panic", message |-> msg]

Identifiers ==
       (<<"i", "f">> :> Tok("If"))
    @@ (<<"e", "l", "i", "f">> :> Tok("Elif"))
    @@ (<<"e", "l", "s", "e">> :> Tok("Else"))
    @@ (<<"f", "o", "r">> :> Tok("For"))
    @@ (<<"w", "h", "i", "l", "e">> :> Tok("While"))
    @@ (<<"c", "l", "a", "s", "s">> :> Tok("Class"))
    @@ (<<"f", "n">> :> Tok("Function"))
    @@ (<<"p", "r", "i", "v">> :> Tok("Private"))
    @@ (<<"p", "u", "b">> :> Tok("Public"))
    @@ (<<"n", "e", "w">> :> Tok("NewInstance"))
    @@ (<<"s", "e", "l", "f">> :> Tok("SelfInstance"))
    @@ (<<"d", "e", "l">> :> Tok("DelObject"))
    @@ (<<"c", "o", "n", "s", "t", "r", "u", "c", "t">> :> Tok("Constructor"))
    @@ (<<"d", "e", "s", "t", "r", "u", "c", "t">> :> Tok("Destructor"))
    @@ (<<"s", "u", "p", "e", "r">> :> Tok("Super"))
    @@ (<<"r", "e", "t", "u", "r", "n">> :> Tok("Return"))
    @@ (<<"t", "r", "u", "e">> :> BoolValue(TRUE))
    @@ (<<"f", "a", "l", "s", "e">> :> BoolValue(FALSE))
    @@ (<<"n", "u", "l", "l">> :> Tok("NullValue"))
    @@ (<<"i", "n", "t">> :> Tok("IntType"))
    @@ (<<"f", "l", "o", "a", "t">> :> Tok("FloatType"))
    @@ (<<"s", "t", "r">> :> Tok("StringType"))
    @@ (<<"c", "h", "a", "r">> :> Tok("CharType"))
    @@ (<<"b", "o", "o", "l">> :> Tok("BoolType"))
    @@ (<<"b", "y", "t", "e", "s">> :> Tok("BytesType"))
    @@ (<<"t", "u", "p", "l", "e">> :> Tok("TupleType"))
    @@ (<<"e", "n", "u", "m">> :> Tok("EnumType"))
    @@ (<<"l", "i", "s", "t">> :> Tok("ListType"))
    @@ (<<"d", "i", "c", "t">> :> Tok("DictType"))

\* an operator set that leaves the minus sign to the delimiters
Operators_NoMinus ==
    {"+", "*", "/", "%", "!", "=", "|", "&", "^", "<", ">", "~"}

Operators == {"+", "-", "*", "/", "%", "!", "=", "|", "&", "^", "<", ">", "~"}

\* a delimiter set with a character the delimiter handler has no arm for
Delimiters_WithAt == {"{", "}", "[", "]", "(", ")", ",", ";", ":", ".", "@"}

Delimiters == {"{", "}", "[", "]", "(", ")", ",", ";", ":", "."}

----------------------------------------------------------------------------
(* The cursor.  L is the mutable part of a Lexer: [consumed, current_chr,  *)
(* previous_chr, row, column, current_char_processed].                     *)

Self ==
    [consumed |-> consumed, current_chr |-> current_chr,
     previous_chr |-> previous_chr, row |-> row, column |-> column,
     current_char_processed |-> current_char_processed]

\* Peekable::peek
Peek(L) == IF L.consumed < Len(input) THEN input[L.consumed + 1] ELSE None

\* an advance that counts a column at the end of the input too
NextChar_AlwaysCounts(L) ==
    LET c == Peek(L)
    IN  [L EXCEPT !.previous_chr = L.current_chr,
                  !.current_chr = c,
                  !.consumed = IF c # None THEN @ + 1 ELSE @,
                  !.column = @ + 1]

NextChar(L) ==
    LET c == Peek(L)
    IN  [L EXCEPT !.previous_chr = L.current_chr,
                  !.current_chr = c,
                  !.consumed = IF c # None THEN @ + 1 ELSE @,
                  !.column = IF c # None THEN @ + 1 ELSE @]

\* a whitespace test that forgets the carriage return
IsWhitespace_NoCarriageReturn(c) == c \in WhiteSpace \ {"\r"}

IsWhitespace(c) == c \in WhiteSpace

\* an alphanumeric test that knows letters only
IsAlphanumeric_LettersOnly(c) == c \in AsciiLetters

\* an alphanumeric test by char::is_alphanumeric, which takes letters
\* outside ASCII
IsAlphanumeric_Unicode(c) == c \in AsciiLetters \cup AsciiDigits \cup {"U+00E9"}

IsAlphanumeric(c) == c \in AsciiLetters \cup AsciiDigits

\* a letter test by char::is_alphabetic, which takes letters outside ASCII
IsLetter_Unicode(c) == c \in AsciiLetters \cup {"U+00E9"}

IsLetter(c) == c \in AsciiLetters

IsDigit(c) == c \in AsciiDigits

IsOperator(c) == c \in Operators

IsDelimiter(c) == c \in Delimiters

\* a newline test that leaves the line feed of a \r\n pair in the input
IsNewline_KeepsLineFeed(L) ==
    CASE L.current_chr = "\n" -> [L |-> L, b |-> TRUE]
      [] L.current_chr = "\r" -> [L |-> L, b |-> Peek(L) = "\n"]
      [] OTHER -> [L |-> L, b |-> FALSE]

\* is_newline takes &mut self: it returns the answer and the lexer it left
IsNewline(L) ==
    CASE L.current_chr = "\n" -> [L |-> L, b |-> TRUE]
      [] L.current_chr = "\r" ->
            IF Peek(L) = "\n" THEN [L |-> NextChar(L), b |-> TRUE]
                              ELSE [L |-> L, b |-> FALSE]
      [] OTHER -> [L |-> L, b |-> FALSE]

RECURSIVE SkipRedundantCharacters(_)
SkipRedundantCharacters(L) ==
    IF L.current_chr = None THEN L
    ELSE LET cond == IF IsWhitespace(L.current_chr)
                     THEN [L |-> L, b |-> TRUE]
                     ELSE IsNewline(L)
         IN  IF ~cond.b THEN cond.L
             ELSE LET nl == IsNewline(cond.L)
                      body == IF nl.b
                              THEN [nl.L EXCEPT !.row = @ + 1, !.column = 0]
                              ELSE [nl.L EXCEPT !.column = @ + 1]
                  IN  SkipRedundantCharacters(NextChar(body))

----------------------------------------------------------------------------
(* Conversions                                                             *)

RECURSIVE AsBytes(_)
AsBytes(s) == IF s = <<>> THEN <<>> ELSE Utf8[Head(s)] \o AsBytes(Tail(s))

\* the number of DOT_SEPERATOR in a text: number.matches('.').count()
RECURSIVE CountDots(_)
CountDots(s) ==
    IF s = <<>> THEN 0
    ELSE (IF Head(s) = DOT_SEPERATOR THEN 1 ELSE 0) + CountDots(Tail(s))

IsDecimal(s) == s # <<>> /\ \A i \in 1..Len(s) : s[i] \in AsciiDigits

\* BigInt::from_str on a run of decimal digits
RECURSIVE ParseBigInt(_)
ParseBigInt(s) ==
    IF s = <<>> THEN 0
    ELSE 10 * ParseBigInt(SubSeq(s, 1, Len(s) - 1)) + DigitValue[s[Len(s)]]

RECURSIVE Normalise(_)
Normalise(f) ==
    IF f.scale > 0 /\ f.mantissa % 10 = 0
    THEN Normalise([mantissa |-> f.mantissa \div 10, scale |-> f.scale - 1])
    ELSE f

\* str::parse::<f64> on digits with one point: the value mantissa/10^scale
\* (the rounding to the nearest double is left out)
ParseFloat(s) ==
    LET dot == CHOOSE i \in 1..Len(s) : s[i] = DOT_SEPERATOR
        whole == SubSeq(s, 1, dot - 1)
        frac == SubSeq(s, dot + 1, Len(s))
    IN  Normalise([mantissa |-> ParseBigInt(whole \o frac),
                   scale |-> Len(frac)])

\* f64 parsing wants a digit on at least one side of the point
FloatParses(s) ==
    /\ \E i \in 1..Len(s) : s[i] \in AsciiDigits
    /\ \A i \in 1..Len(s) : s[i] \in AsciiDigits \cup {DOT_SEPERATOR}

----------------------------------------------------------------------------
(* The handlers.  Each takes the lexer at dispatch and gives the lexer it  *)
(* leaves behind (L) and what next_token returns (ret).                    *)

\* a run that asks the lookahead, not the current character, whether the
\* input goes on, and so leaves the last character of the text out
RECURSIVE IdentifierRun_StopsEarly(_, _)
IdentifierRun_StopsEarly(L, identifier) ==
    IF /\ Peek(L) # None
       /\ (IsAlphanumeric(L.current_chr) \/ L.current_chr = UNDERSCORE)
    THEN IdentifierRun_StopsEarly(NextChar(L),
                                  Append(identifier, L.current_chr))
    ELSE [L |-> L, text |-> identifier]

RECURSIVE IdentifierRun(_, _)
IdentifierRun(L, identifier) ==
    IF /\ L.current_chr # None
       /\ (IsAlphanumeric(L.current_chr) \/ L.current_chr = UNDERSCORE)
    THEN IdentifierRun(NextChar(L), Append(identifier, L.current_chr))
    ELSE [L |-> L, text |-> identifier]

RECURSIVE BytesRun(_, _)
BytesRun(L, identifier) ==
    IF L.current_chr # None /\ L.current_chr # DOUBLE_QUOTES
    THEN BytesRun(NextChar(L), Append(identifier, L.current_chr))
    ELSE [L |-> L, text |-> identifier]

HandleBytes(L) ==
    LET run == BytesRun(NextChar([L EXCEPT !.current_char_processed = TRUE]),
                        <<>>)
    IN  IF run.L.current_chr = None
        THEN [L |-> run.L,
              ret |-> Panic("called Option::unwrap() on a None value")]
        ELSE IF run.L.current_chr # DOUBLE_QUOTES
        THEN [L |-> run.L,
              ret |-> Err("Failed to parse bytes value: missing double-quotes")]
        ELSE [L |-> [NextChar(run.L) EXCEPT !.current_char_processed = FALSE],
              ret |-> Ok(BytesValue(AsBytes(run.text)))]

\* an identifier handler that takes any run ending in the prefix letter,
\* whatever its length, for the start of a byte-string
HandleIdentifier_AnyLength(L) ==
    LET run == IdentifierRun(L, <<>>)
        identifier == run.text
        L1 == [run.L EXCEPT !.current_char_processed = FALSE]
    IN  IF identifier \in DOMAIN Identifiers
        THEN [L |-> L1, ret |-> Ok(Identifiers[identifier])]
        ELSE IF /\ L1.previous_chr = BYTES_PREFIX
                /\ L1.current_chr # None
                /\ L1.current_chr = DOUBLE_QUOTES
        THEN HandleBytes(L1)
        ELSE [L |-> L1, ret |-> Ok(Symbol(identifier))]

HandleIdentifier(L) ==
    LET run == IdentifierRun(L, <<>>)
        identifier == run.text
        L1 == [run.L EXCEPT !.current_char_processed = FALSE]
    IN  IF identifier \in DOMAIN Identifiers
        THEN [L |-> L1, ret |-> Ok(Identifiers[identifier])]
        ELSE IF /\ Len(AsBytes(identifier)) = 1
                /\ L1.previous_chr = BYTES_PREFIX
                /\ L1.current_chr # None
                /\ L1.current_chr = DOUBLE_QUOTES
        THEN HandleBytes(L1)
        ELSE [L |-> L1, ret |-> Ok(Symbol(identifier))]

\* a run of digits that stops at the point
RECURSIVE NumberRun_DigitsOnly(_, _)
NumberRun_DigitsOnly(L, number) ==
    IF L.current_chr # None /\ IsDigit(L.current_chr)
    THEN NumberRun_DigitsOnly(NextChar(L), Append(number, L.current_chr))
    ELSE [L |-> L, text |-> number]

RECURSIVE NumberRun(_, _)
NumberRun(L, number) ==
    IF /\ L.current_chr # None
       /\ (IsDigit(L.current_chr) \/ L.current_chr = DOT_SEPERATOR)
    THEN NumberRun(NextChar(L), Append(number, L.current_chr))
    ELSE [L |-> L, text |-> number]

\* a number handler that leaves current_char_processed set, so that the
\* next call steps over the character behind the run
HandleNumber_Processed(L) ==
    LET run == NumberRun(L, <<>>)
        number == run.text
        dots == CountDots(number)
    IN  CASE dots = 1 ->
               [L |-> run.L, ret |-> Ok(FloatValue(ParseFloat(number)))]
          [] dots = 0 ->
               [L |-> run.L, ret |-> Ok(IntValue(ParseBigInt(number)))]
          [] OTHER ->
               [L |-> run.L,
                ret |-> Err("Invalid number - too many dot seperators")]

HandleNumber(L) ==
    LET run == NumberRun(L, <<>>)
        number == run.text
        L1 == [run.L EXCEPT !.current_char_processed = FALSE]
        dots == CountDots(number)
    IN  CASE dots = 1 ->
               IF ~FloatParses(number)
               THEN [L |-> L1, ret |-> Err("Could not parse float")]
               ELSE [L |-> L1, ret |-> Ok(FloatValue(ParseFloat(number)))]
          [] dots = 0 ->
               IF ~IsDecimal(number)
               THEN [L |-> L1, ret |-> Err("Could not parse int")]
               ELSE [L |-> L1, ret |-> Ok(IntValue(ParseBigInt(number)))]
          [] OTHER ->
               [L |-> L1,
                ret |-> Err("Invalid number - too many dot seperators")]

RECURSIVE StringRun(_, _)
StringRun(L, string) ==
    IF L.current_chr # None /\ L.current_chr # DOUBLE_QUOTES
    THEN StringRun(NextChar(L), Append(string, L.current_chr))
    ELSE [L |-> L, text |-> string]

\* a string handler that does not step over the opening double-quote
HandleString_NoAdvance(L) ==
    LET run == StringRun(L, <<>>)
    IN  IF run.L.current_chr = None
        THEN [L |-> run.L,
              ret |-> Panic("called Option::unwrap() on a None value")]
        ELSE [L |-> run.L, ret |-> Ok(StringValue(run.text))]

\* a string handler that hands the closing double-quote on as not yet used
HandleString_Unprocessed(L) ==
    LET run == StringRun(NextChar(L), <<>>)
    IN  IF run.L.current_chr = None
        THEN [L |-> run.L,
              ret |-> Panic("called Option::unwrap() on a None value")]
        ELSE [L |-> [run.L EXCEPT !.current_char_processed = FALSE],
              ret |-> Ok(StringValue(run.text))]

HandleString(L) ==
    LET run == StringRun(NextChar(L), <<>>)
    IN  IF run.L.current_chr = None
        THEN [L |-> run.L,
              ret |-> Panic("called Option::unwrap() on a None value")]
        ELSE IF run.L.current_chr # DOUBLE_QUOTES
        THEN [L |-> run.L,
              ret |-> Err("Failed to parse string value: missing double-quotes")]
        ELSE [L |-> run.L, ret |-> Ok(StringValue(run.text))]

\* a character handler without the test for the empty literal
HandleChar_NoEmptyTest(L) ==
    LET L1 == NextChar(L)
        chr == L1.current_chr
        L2 == NextChar(L1)
    IN  IF L1.current_chr = None
        THEN [L |-> L1, ret |-> Err("Failed to parse character value")]
        ELSE IF L2.current_chr = None \/ L2.current_chr # SINGLE_QUOTES
        THEN [L |-> L2,
              ret |-> Err("Failed to parse character value: missing single-quotes")]
        ELSE [L |-> L2, ret |-> Ok(CharValue(chr))]

HandleChar(L) ==
    LET L1 == NextChar(L)
        chr == L1.current_chr
        L2 == NextChar(L1)
    IN  IF L1.current_chr = None
        THEN [L |-> L1, ret |-> Err("Failed to parse character value")]
        ELSE IF L1.current_chr = SINGLE_QUOTES
        THEN [L |-> L1,
              ret |-> Err("Character literal may only contain one codepoint")]
        ELSE IF L2.current_chr = None \/ L2.current_chr # SINGLE_QUOTES
        THEN [L |-> L2,
              ret |-> Err("Failed to parse character value: missing single-quotes")]
        ELSE [L |-> L2, ret |-> Ok(CharValue(chr))]

\* a lookahead arm that returns the compound token and forgets to take the
\* second character
TakeLookahead_NoAdvance(L, tok) == [L |-> L, ret |-> Ok(Tok(tok))]

\* a lookahead arm that matched: self.next_char(); return Ok(token)
TakeLookahead(L, tok) == [L |-> NextChar(L), ret |-> Ok(Tok(tok))]

\* a fall-through arm that takes the character it only had to look at
KeepLookahead_Advance(L, tok) == [L |-> NextChar(L), ret |-> Ok(Tok(tok))]

\* the _ => arm after a peek, and the operators without lookahead
KeepLookahead(L, tok) == [L |-> L, ret |-> Ok(Tok(tok))]

HandleOperator(L) ==
    LET c == L.current_chr
        p == Peek(L)
    IN  CASE c = "+" -> KeepLookahead(L, "Add")
          [] c = "-" -> IF p = ">" THEN TakeLookahead(L, "FnReturnTypeDelim")
                        ELSE KeepLookahead(L, "Subtract")
          [] c = "*" -> KeepLookahead(L, "Multiply")
          [] c = "/" -> KeepLookahead(L, "Divide")
          [] c = "%" -> KeepLookahead(L, "Modulo")
          [] c = "!" -> IF p = "=" THEN TakeLookahead(L, "NotEquals")
                        ELSE KeepLookahead(L, "Not")
          [] c = "=" -> IF p = "=" THEN TakeLookahead(L, "Equals")
                        ELSE KeepLookahead(L, "Assignment")
          [] c = "|" -> IF p = "|" THEN TakeLookahead(L, "LogicalOr")
                        ELSE KeepLookahead(L, "BitwiseOr")
          [] c = "&" -> IF p = "&" THEN TakeLookahead(L, "LogicalAnd")
                        ELSE KeepLookahead(L, "BitwiseAnd")
          [] c = "~" -> KeepLookahead(L, "BitwiseNot")
          [] c = "^" -> KeepLookahead(L, "BitwiseXor")
          [] c = ">" -> IF p = ">" THEN TakeLookahead(L, "BitwiseRightShift")
                        ELSE IF p = "=" THEN TakeLookahead(L, "GreaterEqual")
                        ELSE KeepLookahead(L, "Greater")
          [] c = "<" -> IF p = "<" THEN TakeLookahead(L, "BitwiseLeftShift")
                        ELSE IF p = "=" THEN TakeLookahead(L, "LessEqual")
                        ELSE KeepLookahead(L, "Less")
          [] OTHER -> [L |-> L, ret |-> Err("Could not parse operator")]

\* a delimiter handler that has a token for a colon on its own
HandleDelimiter_Colon(L) ==
    LET c == L.current_chr
        p == Peek(L)
        fail == [L |-> L, ret |-> Err("Could not parse delimiter")]
    IN  CASE c = "(" -> KeepLookahead(L, "LeftParens")
          [] c = ")" -> KeepLookahead(L, "RightParens")
          [] c = "{" -> KeepLookahead(L, "LeftCurlyBracket")
          [] c = "}" -> KeepLookahead(L, "RightCurlyBracket")
          [] c = "[" -> KeepLookahead(L, "LeftSquareBracket")
          [] c = "]" -> KeepLookahead(L, "RightSquareBracket")
          [] c = ";" -> KeepLookahead(L, "Semicolon")
          [] c = "," -> KeepLookahead(L, "Comma")
          [] c = "." -> KeepLookahead(L, "MemberAccessor")
          [] c = "-" -> IF p = ">" THEN TakeLookahead(L, "FnReturnTypeDelim")
                        ELSE fail
          [] c = ":" -> IF p = ":" THEN TakeLookahead(L, "StaticAccessor")
                        ELSE KeepLookahead(L, "Colon")
          [] OTHER -> fail

HandleDelimiter(L) ==
    LET c == L.current_chr
        p == Peek(L)
        fail == [L |-> L, ret |-> Err("Could not parse delimiter")]
    IN  CASE c = "(" -> KeepLookahead(L, "LeftParens")
          [] c = ")" -> KeepLookahead(L, "RightParens")
          [] c = "{" -> KeepLookahead(L, "LeftCurlyBracket")
          [] c = "}" -> KeepLookahead(L, "RightCurlyBracket")
          [] c = "[" -> KeepLookahead(L, "LeftSquareBracket")
          [] c = "]" -> KeepLookahead(L, "RightSquareBracket")
          [] c = ";" -> KeepLookahead(L, "Semicolon")
          [] c = "," -> KeepLookahead(L, "Comma")
          [] c = "." -> KeepLookahead(L, "MemberAccessor")
          [] c = "-" -> IF p = ">" THEN TakeLookahead(L, "FnReturnTypeDelim")
                        ELSE fail
          [] c = ":" -> IF p = ":" THEN TakeLookahead(L, "StaticAccessor")
                        ELSE fail
          [] OTHER -> fail

----------------------------------------------------------------------------
(* Bounds and the source texts lexed                                       *)

MaxLen == 3

ExtraCalls == 3

Alphabet ==
    {"b", "i", "f", "5", ".", "\"", "'", "\\", " ", "\n", "\r",
     "=", "-", ">", ":", ";", "@", "_"}

ShortTexts == UNION {[1..n -> Alphabet] : n \in 0..MaxLen}

\* the end-to-end scenario: int i = 5; float f = 3.54;
ScenarioText ==
    <<"i", "n", "t", " ", "i", " ",
      "=", " ", "5", ";", " ",
      "f", "l", "o", "a", "t", " ", "f", " ",
      "=", " ", "3", ".", "5", "4", ";">>

\* a string literal holding a backslash and a double-quote
EscapedQuoteText == <<"\"", "a", "\\", "\"", "b", "\"">>

\* tokens with nothing between them
AdjacentTexts ==
    {<<"i", "=", "5", ";">>,
     <<"b", "\"", "x", "\"", ";">>,
     <<"n", "a", "m", "e", ")">>}

\* nothing but whitespace
BlankTexts ==
    {<<" ", "\t">>,
     <<"\r", "\n">>,
     <<"\n", "\r", "\n", " ", "\r">>,
     <<"U+00A0", "\f", "U+000B">>}

\* a quoted literal that never closes
UnterminatedTexts ==
    {<<"\"", "a", "b", "c">>,
     <<"b", "\"", "a", "b">>}

\* a numeric run with a letter right behind it
NumberLetterTexts ==
    {<<"1", "2", "3", "a", "b", "c">>,
     <<"1", ".", "5", "x">>}

\* the keys of the keyword/type table
KeywordTexts ==
    {<<"i", "f">>,
     <<"e", "l", "i", "f">>,
     <<"e", "l", "s", "e">>,
     <<"f", "o", "r">>,
     <<"w", "h", "i", "l", "e">>,
     <<"c", "l", "a", "s", "s">>,
     <<"f", "n">>,
     <<"p", "r", "i", "v">>,
     <<"p", "u", "b">>,
     <<"n", "e", "w">>,
     <<"s", "e", "l", "f">>,
     <<"d", "e", "l">>,
     <<"c", "o", "n", "s", "t", "r", "u", "c", "t">>,
     <<"d", "e", "s", "t", "r", "u", "c", "t">>,
     <<"s", "u", "p", "e", "r">>,
     <<"r", "e", "t", "u", "r", "n">>,
     <<"t", "r", "u", "e">>,
     <<"f", "a", "l", "s", "e">>,
     <<"n", "u", "l", "l">>,
     <<"i", "n", "t">>,
     <<"f", "l", "o", "a", "t">>,
     <<"s", "t", "r">>,
     <<"c", "h", "a", "r">>,
     <<"b", "o", "o", "l">>,
     <<"b", "y", "t", "e", "s">>,
     <<"t", "u", "p", "l", "e">>,
     <<"e", "n", "u", "m">>,
     <<"l", "i", "s", "t">>,
     <<"d", "i", "c", "t">>}

\* identifiers that hold a keyword as a proper part
SymbolTexts ==
    {<<"i", "f", "f", "y">>,
     <<"i", "n", "t", "5">>,
     <<"_", "i", "f">>,
     <<"I", "f">>}

\* the two-character tokens
CompoundToken ==
       (<<"!", "=">> :> "NotEquals")
    @@ (<<"=", "=">> :> "Equals")
    @@ (<<"|", "|">> :> "LogicalOr")
    @@ (<<"&", "&">> :> "LogicalAnd")
    @@ (<<">", ">">> :> "BitwiseRightShift")
    @@ (<<"<", "<">> :> "BitwiseLeftShift")
    @@ (<<">", "=">> :> "GreaterEqual")
    @@ (<<"<", "=">> :> "LessEqual")
    @@ (<<"-", ">">> :> "FnReturnTypeDelim")
    @@ (<<":", ":">> :> "StaticAccessor")

\* an operator lead with a lookahead that does not pair with it
LookaheadTexts ==
    {<<"=", "a">>,
     <<"-", "-", ">">>,
     <<">", ">", "=">>}

\* numeric runs with no, one and several points
NumberTexts ==
    {<<"0", "0", "7">>,
     <<"2", "4", "4", "5", "4", "3", "3", "3">>,
     <<"7", "6", "3", ".", "4", "3", "3">>,
     <<"5", ".">>,
     <<"1", ".", "2", ".", "3">>,
     <<"4", "2", " ", "7", ".", " ", "1", ".", "2", ".", "3", " ",
       "0", "0", "7">>}

\* character literals, well formed and not
CharTexts ==
    {<<"'", "a", "'">>,
     <<"'", "'">>,
     <<"'", "a", "b", "'">>,
     <<"'", "\n", "'", ";">>,
     <<"'">>,
     <<"'", "a">>}

\* the byte-string prefix, followed by a double-quote or not
BytesTexts ==
    {<<"b", "\"", "h", "\\", "x", "0", "1", "\"">>,
     <<"b", "\"", "U+00E9", "\"", "b">>,
     <<"b", " ", "\"", "x", "\"">>,
     <<"a", "b", "\"", "x", "\"">>,
     <<"b">>}

\* every delimiter, apart and together
DelimiterTexts ==
    {<<"(", " ", ")", " ", "{", " ", "}", " ", "[", " ", "]", " ",
       ".", " ", ";", " ", ",", " ", ":", ":", " ", "-", ">">>,
     <<"(", ")", "{", "}", "[", "]", ";", ",", ".", ":", ":">>,
     <<":">>,
     <<":", "a", ":">>}

\* a minus sign in front of a number, of a greater-than sign and alone
MinusTexts ==
    {<<"-", "5">>,
     <<"-", ">", "-">>,
     <<"a", "-", " ", ">">>}

\* quoted literals with newlines inside
NewlineLiteralTexts ==
    {<<"\"", "a", "\n", "b", "\"">>,
     <<"\n", "\"", "\n", "\n", "a", "\"">>,
     <<"b", "\"", "\n", "x", "\"">>}

\* tokens with line breaks of every kind between them
LineBreakTexts ==
    {<<" ", "\n", "\r", "\n", " ", "\r", " ", "i">>,
     <<"i", "\r", "\n", "\n", "\r", "f", "\r", "\n">>,
     <<"'", "a", "\r", "\n", "i">>}

\* every character of the operator set and of the delimiter set
OperatorTexts ==
    {<<"+", " ", "-", " ", "*", " ", "/", " ", "%", " ", "!", " ", "=", " ",
       "|", " ", "&", " ", "^", " ", "<", " ", ">", " ", "~">>,
     <<"{", "}", "[", "]", "(", ")", ",", ";", ":", ":", ".", ":">>}

\* one character of every class of the dispatch, and characters of none
DispatchTexts ==
    {<<"_", " ", "5", " ", "\"", "a", "\"", " ", "'", "a", "'", " ",
       "+", " ", ";", " ", "#">>,
     <<"@">>, <<"#">>, <<"?">>, <<"\\">>, <<"U+00E9">>,
     <<"a", "U+00E9", "?", "5", "#">>,
     <<"U+00A0", "U+00E9", "U+000B", "a">>}

Examples ==
    {ScenarioText, EscapedQuoteText} \cup AdjacentTexts \cup BlankTexts
    \cup UnterminatedTexts \cup NumberLetterTexts \cup KeywordTexts
    \cup SymbolTexts \cup DOMAIN CompoundToken \cup LookaheadTexts
    \cup NumberTexts \cup CharTexts \cup BytesTexts \cup DelimiterTexts
    \cup MinusTexts \cup NewlineLiteralTexts \cup LineBreakTexts
    \cup DispatchTexts \cup OperatorTexts

Inputs == ShortTexts \cup Examples

----------------------------------------------------------------------------
(* Lexer::new and Lexer::next_token                                        *)

Init ==
    /\ input \in Inputs
    /\ consumed = 0
    /\ current_chr = None
    /\ previous_chr = None
    /\ row = 0
    /\ column = 0
    /\ current_char_processed = TRUE
    /\ results = <<>>
    /\ spans = <<>>
    /\ handler = <<>>
    /\ positions = <<>>

Panicked == results # <<>> /\ results[Len(results)].kind = "Panic"

\* the lexer after the first statement of next_token
Advanced ==
    IF current_char_processed THEN NextChar(Self)
    ELSE [Self EXCEPT !.current_char_processed = TRUE]

\* the lexer at the dispatch
Entered == SkipRedundantCharacters(Advanced)

\* the input position of the current character (one past the end at None)
Position(L) == IF L.current_chr = None THEN Len(input) + 1 ELSE L.consumed

\* the last position the call leaves used: the next call steps over the
\* current character exactly when current_char_processed is set
Stop(L) ==
    IF L.current_char_processed
    THEN (IF L.current_chr = None THEN Len(input) ELSE L.consumed)
    ELSE Position(L) - 1

Callable == ~Panicked /\ Len(results) < Len(input) + ExtraCalls

Return(h, name) ==
    /\ consumed' = h.L.consumed
    /\ current_chr' = h.L.current_chr
    /\ previous_chr' = h.L.previous_chr
    /\ row' = h.L.row
    /\ column' = h.L.column
    /\ current_char_processed' = h.L.current_char_processed
    /\ results' = Append(results, h.ret)
    /\ spans' = Append(spans, [first |-> Position(Advanced),
                               start |-> Position(Entered),
                               stop |-> Stop(h.L)])
    /\ handler' = Append(handler, name)
    /\ positions' = Append(positions,
                           [entry |-> [row |-> row, column |-> column],
                            dispatch |-> [row |-> Entered.row,
                                          column |-> Entered.column],
                            return |-> [row |-> h.L.row,
                                        column |-> h.L.column]])
    /\ UNCHANGED input

NextTokenNoMoreTokens ==
    /\ Callable
    /\ Entered.current_chr = None
    /\ Return([L |-> Entered, ret |-> Err("No more tokens")], "none")

NextTokenIdentifier ==
    /\ Callable
    /\ Entered.current_chr # None
    /\ IsLetter(Entered.current_chr) \/ Entered.current_chr = UNDERSCORE
    /\ Return(HandleIdentifier(Entered), "identifier")

NextTokenNumber ==
    /\ Callable
    /\ Entered.current_chr # None
    /\ ~(IsLetter(Entered.current_chr) \/ Entered.current_chr = UNDERSCORE)
    /\ IsDigit(Entered.current_chr)
    /\ Return(HandleNumber(Entered), "number")

NextTokenString ==
    /\ Callable
    /\ Entered.current_chr # None
    /\ ~(IsLetter(Entered.current_chr) \/ Entered.current_chr = UNDERSCORE)
    /\ ~IsDigit(Entered.current_chr)
    /\ Entered.current_chr = DOUBLE_QUOTES
    /\ Return(HandleString(Entered), "string")

NextTokenChar ==
    /\ Callable
    /\ Entered.current_chr # None
    /\ ~(IsLetter(Entered.current_chr) \/ Entered.current_chr = UNDERSCORE)
    /\ ~IsDigit(Entered.current_chr)
    /\ Entered.current_chr # DOUBLE_QUOTES
    /\ Entered.current_chr = SINGLE_QUOTES
    /\ Return(HandleChar(Entered), "char")

NextTokenOperator ==
    /\ Callable
    /\ Entered.current_chr # None
    /\ ~(IsLetter(Entered.current_chr) \/ Entered.current_chr = UNDERSCORE)
    /\ ~IsDigit(Entered.current_chr)
    /\ Entered.current_chr # DOUBLE_QUOTES
    /\ Entered.current_chr # SINGLE_QUOTES
    /\ IsOperator(Entered.current_chr)
    /\ Return(HandleOperator(Entered), "operator")

NextTokenDelimiter ==
    /\ Callable
    /\ Entered.current_chr # None
    /\ ~(IsLetter(Entered.current_chr) \/ Entered.current_chr = UNDERSCORE)
    /\ ~IsDigit(Entered.current_chr)
    /\ Entered.current_chr # DOUBLE_QUOTES
    /\ Entered.current_chr # SINGLE_QUOTES
    /\ ~IsOperator(Entered.current_chr)
    /\ IsDelimiter(Entered.current_chr)
    /\ Return(HandleDelimiter(Entered), "delimiter")

NextTokenFailedToLex ==
    /\ Callable
    /\ Entered.current_chr # None
    /\ ~(IsLetter(Entered.current_chr) \/ Entered.current_chr = UNDERSCORE)
    /\ ~IsDigit(Entered.current_chr)
    /\ Entered.current_chr # DOUBLE_QUOTES
    /\ Entered.current_chr # SINGLE_QUOTES
    /\ ~IsOperator(Entered.current_chr)
    /\ ~IsDelimiter(Entered.current_chr)
    /\ Return([L |-> Entered, ret |-> Err("Failed to lex source")], "unknown")

Next ==
    \/ NextTokenNoMoreTokens
    \/ NextTokenIdentifier
    \/ NextTokenNumber
    \/ NextTokenString
    \/ NextTokenChar
    \/ NextTokenOperator
    \/ NextTokenDelimiter
    \/ NextTokenFailedToLex

Spec == Init /\ [][Next]_vars

----------------------------------------------------------------------------
(* What the calls so far returned                                          *)

Calls == Len(results)

NoMoreTokens == Err("No more tokens")

IsOk(i) == results[i].kind = "Ok"

IsToken(i, type) == IsOk(i) /\ results[i].token.type = type

\* the source characters call i left used, from the one its token starts at
Lexeme(i) == SubSeq(input, spans[i].start, spans[i].stop)

\* no call so far failed: tokens only, with at most the exhaustion at the end
LexedWithoutError ==
    \A i \in 1..Calls : IsOk(i) \/ (i = Calls /\ results[i] = NoMoreTokens)

\* the spelling of the tokens without a payload that are not in Identifiers
Spelling ==
       ("Add" :> <<"+">>) @@ ("Subtract" :> <<"-">>)
    @@ ("Multiply" :> <<"*">>) @@ ("Divide" :> <<"/">>)
    @@ ("Modulo" :> <<"%">>) @@ ("Not" :> <<"!">>)
    @@ ("Assignment" :> <<"=">>) @@ ("BitwiseOr" :> <<"|">>)
    @@ ("BitwiseAnd" :> <<"&">>) @@ ("BitwiseNot" :> <<"~">>)
    @@ ("BitwiseXor" :> <<"^">>) @@ ("Greater" :> <<">">>)
    @@ ("Less" :> <<"<">>)
    @@ ("NotEquals" :> <<"!", "=">>) @@ ("Equals" :> <<"=", "=">>)
    @@ ("LogicalOr" :> <<"|", "|">>) @@ ("LogicalAnd" :> <<"&", "&">>)
    @@ ("BitwiseRightShift" :> <<">", ">">>)
    @@ ("BitwiseLeftShift" :> <<"<", "<">>)
    @@ ("GreaterEqual" :> <<">", "=">>) @@ ("LessEqual" :> <<"<", "=">>)
    @@ ("FnReturnTypeDelim" :> <<"-", ">">>)
    @@ ("StaticAccessor" :> <<":", ":">>)
    @@ ("LeftParens" :> <<"(">>) @@ ("RightParens" :> <<")">>)
    @@ ("LeftCurlyBracket" :> <<"{">>) @@ ("RightCurlyBracket" :> <<"}">>)
    @@ ("LeftSquareBracket" :> <<"[">>) @@ ("RightSquareBracket" :> <<"]">>)
    @@ ("Semicolon" :> <<";">>) @@ ("Comma" :> <<",">>)
    @@ ("MemberAccessor" :> <<".">>)

\* text is a way to write token tok in the source
Spells(text, tok) ==
    CASE tok.type = "Symbol" -> text = tok.name
      [] tok.type = "IntValue" ->
            IsDecimal(text) /\ ParseBigInt(text) = tok.ivalue
      [] tok.type = "FloatValue" ->
            /\ CountDots(text) = 1
            /\ FloatParses(text)
            /\ ParseFloat(text) = tok.fvalue
      [] tok.type = "StringValue" ->
            text = <<DOUBLE_QUOTES>> \o tok.svalue \o <<DOUBLE_QUOTES>>
      [] tok.type = "CharValue" ->
            text = <<SINGLE_QUOTES, tok.cvalue, SINGLE_QUOTES>>
      [] tok.type = "BytesValue" ->
            /\ Len(text) >= 3
            /\ text[1] = BYTES_PREFIX
            /\ text[2] = DOUBLE_QUOTES
            /\ text[Len(text)] = DOUBLE_QUOTES
            /\ AsBytes(SubSeq(text, 3, Len(text) - 1)) = tok.bytes
      [] tok.type \in DOMAIN Spelling -> text = Spelling[tok.type]
      [] OTHER -> text \in KeywordTexts /\ Identifiers[text] = tok

Blank(from, to) == \A j \in from..to : input[j] \in WhiteSpace

ScenarioTokens ==
    <<Ok(Tok("IntType")), Ok(Symbol(<<"i">>)), Ok(Tok("Assignment")),
      Ok(IntValue(5)), Ok(Tok("Semicolon")),
      Ok(Tok("FloatType")), Ok(Symbol(<<"f">>)), Ok(Tok("Assignment")),
      Ok(FloatValue([mantissa |-> 354, scale |-> 2])), Ok(Tok("Semicolon")),
      NoMoreTokens>>

----------------------------------------------------------------------------
\* C1: while no call has failed, call i starts where call i-1 stopped, steps
\* over whitespace only, and returns a token that is spelled by exactly the
\* characters it used; the exhaustion signal comes when nothing but
\* whitespace is left.  The scenario text gives its ten tokens and then the
\* exhaustion signal.
C1_TokensInSourceOrder ==
    /\ LexedWithoutError =>
         \A i \in 1..Calls :
            /\ spans[i].first = (IF i = 1 THEN 1 ELSE spans[i - 1].stop + 1)
            /\ spans[i].first <= spans[i].start
            /\ Blank(spans[i].first, spans[i].start - 1)
            /\ IsOk(i) =>
                 /\ spans[i].start <= spans[i].stop
                 /\ spans[i].stop <= Len(input)
                 /\ Spells(Lexeme(i), results[i].token)
            /\ results[i] = NoMoreTokens =>
                 /\ spans[i].start = Len(input) + 1
                 /\ spans[i].stop = Len(input)
    /\ input = ScenarioText =>
         /\ Calls <= 11 => results = SubSeq(ScenarioTokens, 1, Calls)
         /\ Calls > 11 =>
              /\ SubSeq(results, 1, 11) = ScenarioTokens
              /\ \A i \in 12..Calls : results[i] = NoMoreTokens

C1_Witness ==
    /\ input = ScenarioText
    /\ results = ScenarioTokens

C1_WitnessAdjacent ==
    /\ input = <<"b", "\"", "x", "\"", ";">>
    /\ results = <<Ok(BytesValue(<<120>>)), Ok(Tok("Semicolon")), NoMoreTokens>>

\* C2: on a text of whitespace only (the empty text too) the first call
\* signals exhaustion.
C2_BlankInputIsExhausted ==
    (Blank(1, Len(input)) /\ Calls >= 1) => results[1] = NoMoreTokens

C2_Witness ==
    /\ input = <<"\n", "\r", "\n", " ", "\r">>
    /\ results = <<NoMoreTokens>>

\* call i is at a literal opened by " or by b" that has no closing
\* double-quote anywhere behind it
Unterminated(i) ==
    LET s == spans[i].start
        NoQuoteFrom(k) == \A j \in k..Len(input) : input[j] # DOUBLE_QUOTES
    IN  \/ handler[i] = "string" /\ NoQuoteFrom(s + 1)
        \/ /\ handler[i] = "identifier"
           /\ input[s] = BYTES_PREFIX
           /\ s + 1 <= Len(input)
           /\ input[s + 1] = DOUBLE_QUOTES
           /\ NoQuoteFrom(s + 2)

\* C3: a string or byte-string literal that meets the end of the input
\* before its closing double-quote makes next_token return the error
\* "missing double-quotes": the call returns, and it returns no token.
C3_UnterminatedLiteralIsError ==
    \A i \in 1..Calls :
        Unterminated(i) =>
            /\ results[i].kind = "Err"
            /\ results[i].message \in
                 {"Failed to parse string value: missing double-quotes",
                  "Failed to parse bytes value: missing double-quotes"}

\* C4: a numeric run with a letter right behind it makes the call return an
\* error, never the number token.
C4_NumberThenLetterIsError ==
    \A i \in 1..Calls :
        (/\ handler[i] = "number"
         /\ spans[i].stop + 1 <= Len(input)
         /\ input[spans[i].stop + 1] \in AsciiLetters)
        => results[i].kind = "Err"

\* the number of backslashes at the end of a text
RECURSIVE TrailingBackslashes(_)
TrailingBackslashes(s) ==
    IF s = <<>> \/ s[Len(s)] # "\\" THEN 0
    ELSE 1 + TrailingBackslashes(SubSeq(s, 1, Len(s) - 1))

\* C5: a double-quote behind a backslash does not end a string literal: the
\* payload of a StringValue never stops at an escaped double-quote, and the
\* text "a\"b" is one StringValue with the payload a\"b.
C5_EscapedQuoteStaysInString ==
    /\ \A i \in 1..Calls :
          IsToken(i, "StringValue") =>
              TrailingBackslashes(results[i].token.svalue) % 2 = 0
    /\ (input = EscapedQuoteText /\ Calls >= 1) =>
          results[1] = Ok(StringValue(<<"a", "\\", "\"", "b">>))

\* C6: a string literal that has a closing double-quote gives a StringValue
\* whose payload is the characters between the opening double-quote and the
\* next double-quote, in order, without either quote; the token uses the
\* closing quote, and the next call starts at the character behind it.
C6_StringPayloadBetweenQuotes ==
    \A i \in 1..Calls :
        /\ (handler[i] = "string" /\ ~Unterminated(i)) =>
               IsToken(i, "StringValue")
        /\ IsToken(i, "StringValue") =>
               LET s == spans[i].start
                   v == results[i].token.svalue
                   close == s + Len(v) + 1
               IN  /\ input[s] = DOUBLE_QUOTES
                   /\ close <= Len(input)
                   /\ v = SubSeq(input, s + 1, close - 1)
                   /\ \A j \in 1..Len(v) : v[j] # DOUBLE_QUOTES
                   /\ input[close] = DOUBLE_QUOTES
                   /\ spans[i].stop = close
                   /\ i < Calls => spans[i + 1].first = close + 1
                   /\ i = Calls => consumed = close

C6_Witness ==
    /\ input = <<"\"", "i", "\"">>
    /\ results = <<Ok(StringValue(<<"i">>)), NoMoreTokens>>

\* C7: a keyword or type name alone gives the token the table has for it,
\* never a Symbol, and then the exhaustion signal.
C7_KeywordAlone ==
    /\ KeywordTexts = DOMAIN Identifiers
    /\ input \in KeywordTexts =>
         /\ Calls >= 1 =>
              /\ results[1] = Ok(Identifiers[input])
              /\ results[1].token.type # "Symbol"
         /\ \A i \in 2..Calls : results[i] = NoMoreTokens

C7_Witness ==
    /\ input = <<"d", "e", "s", "t", "r", "u", "c", "t">>
    /\ results = <<Ok(Tok("Destructor")), NoMoreTokens>>

\* [A-Za-z_][A-Za-z0-9_]*
IsIdentifierText(s) ==
    /\ s # <<>>
    /\ s[1] \in AsciiLetters \cup {UNDERSCORE}
    /\ \A j \in 2..Len(s) : s[j] \in AsciiLetters \cup AsciiDigits \cup {UNDERSCORE}

\* C8: an identifier that is not a key of the table, alone, gives one Symbol
\* with exactly that text and then the exhaustion signal, also when a
\* keyword is a proper part of it.
C8_SymbolAlone ==
    (IsIdentifierText(input) /\ input \notin KeywordTexts) =>
        /\ Calls >= 1 => results[1] = Ok(Symbol(input))
        /\ \A i \in 2..Calls : results[i] = NoMoreTokens

C8_Witness ==
    /\ input = <<"i", "n", "t", "5">>
    /\ results = <<Ok(Symbol(<<"i", "n", "t", "5">>)), NoMoreTokens>>

\* C9: each two-character operator or accessor alone gives its one compound
\* token and then the exhaustion signal.
C9_CompoundOperators ==
    input \in DOMAIN CompoundToken =>
        /\ Calls >= 1 => results[1] = Ok(Tok(CompoundToken[input]))
        /\ \A i \in 2..Calls : results[i] = NoMoreTokens

C9_Witness ==
    /\ input = <<">", "=">>
    /\ results = <<Ok(Tok("GreaterEqual")), NoMoreTokens>>

\* the characters that make a compound operator with the lead
Pairs ==
       ("!" :> {"="}) @@ ("=" :> {"="}) @@ ("|" :> {"|"}) @@ ("&" :> {"&"})
    @@ (">" :> {">", "="}) @@ ("<" :> {"<", "="}) @@ ("-" :> {">"})

\* C10: the operator handler uses the characters that spell its token and
\* nothing else: after a lead whose lookahead does not pair with it, the
\* single-character token is returned, nothing behind the lead is taken from
\* the input, and the next call starts at the lookahead character; the
\* lookahead is used only for the compound token.
C10_LookaheadIsPure ==
    /\ \A i \in 1..Calls :
          (handler[i] = "operator") =>
             LET s == spans[i].start
                 lead == input[s]
                 paired == /\ lead \in DOMAIN Pairs
                           /\ s + 1 <= Len(input)
                           /\ input[s + 1] \in Pairs[lead]
                 width == IF paired THEN 2 ELSE 1
             IN  /\ IsOk(i)
                 /\ Spelling[results[i].token.type] = SubSeq(input, s, s + width - 1)
                 /\ spans[i].stop = s + width - 1
                 /\ i < Calls => spans[i + 1].first = s + width
                 /\ i = Calls => consumed = s + width - 1
    /\ (input = <<"=", "a">> /\ Calls >= 2) =>
          SubSeq(results, 1, 2) = <<Ok(Tok("Assignment")), Ok(Symbol(<<"a">>))>>
    /\ (input = <<"-", "-", ">">> /\ Calls >= 2) =>
          SubSeq(results, 1, 2) =
              <<Ok(Tok("Subtract")), Ok(Tok("FnReturnTypeDelim"))>>
    /\ (input = <<">", ">", "=">> /\ Calls >= 2) =>
          SubSeq(results, 1, 2) =
              <<Ok(Tok("BitwiseRightShift")), Ok(Tok("Assignment"))>>

C10_Witness ==
    /\ input = <<"-", "-", ">">>
    /\ results = <<Ok(Tok("Subtract")), Ok(Tok("FnReturnTypeDelim")),
                   NoMoreTokens>>

\* the end of the longest run of digits and points that starts at position s
RunEnd(s) ==
    CHOOSE e \in s..Len(input) :
        /\ \A j \in s..e : input[j] \in AsciiDigits \cup {DOT_SEPERATOR}
        /\ e < Len(input) => input[e + 1] \notin AsciiDigits \cup {DOT_SEPERATOR}

PointsIn(from, to) == Cardinality({j \in from..to : input[j] = DOT_SEPERATOR})

\* the decimal value of the digits at the positions from..to
RECURSIVE DecimalValue(_, _)
DecimalValue(from, to) ==
    IF to < from THEN 0
    ELSE 10 * DecimalValue(from, to - 1) + DigitValue[input[to]]

\* C11: a call that starts at a digit goes to the number handler, uses the
\* whole run of digits and points, and returns by the number of points in
\* it: with none the IntValue of the digits (leading zeros allowed), with
\* one a FloatValue (also for a point at the end), with more the error
\* "too many dot seperators".
C11_KindByPointCount ==
    \A i \in 1..Calls :
        /\ (spans[i].start <= Len(input)
              /\ input[spans[i].start] \in AsciiDigits) => handler[i] = "number"
        /\ handler[i] = "number" =>
              LET s == spans[i].start
                  e == RunEnd(s)
                  points == PointsIn(s, e)
              IN  /\ spans[i].stop = e
                  /\ i < Calls => spans[i + 1].first = e + 1
                  /\ points = 0 => results[i] = Ok(IntValue(DecimalValue(s, e)))
                  /\ points = 1 => IsToken(i, "FloatValue")
                  /\ points >= 2 =>
                       results[i] =
                           Err("Invalid number - too many dot seperators")

C11_Witness ==
    /\ input = <<"4", "2", " ", "7", ".", " ", "1", ".", "2", ".", "3", " ",
                 "0", "0", "7">>
    /\ results = <<Ok(IntValue(42)),
                   Ok(FloatValue([mantissa |-> 7, scale |-> 0])),
                   Err("Invalid number - too many dot seperators"),
                   Ok(IntValue(7)), NoMoreTokens>>


\* the character at position k of the input, None behind its end
At(k) == IF k <= Len(input) THEN input[k] ELSE None

\* C12: a call that starts at a single quote goes to the character handler.
\* It returns CharValue(c) exactly when the quote is followed by a character
\* c that is not a single quote and then by a single quote; two quotes in a
\* row give the "one codepoint" error, a second character that is not the
\* closing quote gives the "missing single-quotes" error, and the end of the
\* input behind the opening quote or behind c gives an error as well.
C12_CharLiteral ==
    \A i \in 1..Calls :
        /\ At(spans[i].start) = SINGLE_QUOTES => handler[i] = "char"
        /\ handler[i] = "char" =>
              LET s == spans[i].start
                  c == At(s + 1)
                  close == At(s + 2)
                  wellFormed == /\ c \notin {None, SINGLE_QUOTES}
                                /\ close = SINGLE_QUOTES
              IN  /\ At(s) = SINGLE_QUOTES
                  /\ IsToken(i, "CharValue") <=> wellFormed
                  /\ wellFormed =>
                       /\ results[i] = Ok(CharValue(c))
                       /\ spans[i].stop = s + 2
                  /\ c = SINGLE_QUOTES =>
                       results[i] =
                         Err("Character literal may only contain one codepoint")
                  /\ (c \notin {None, SINGLE_QUOTES}
                        /\ close \notin {None, SINGLE_QUOTES}) =>
                       results[i] =
                         Err("Failed to parse character value: missing single-quotes")
                  /\ (c = None \/ close = None) => results[i].kind = "Err"

C12_Witness ==
    /\ input = <<"'", "\n", "'", ";">>
    /\ results = <<Ok(CharValue("\n")), Ok(Tok("Semicolon")), NoMoreTokens>>


\* the end of the longest run of letters, digits and underscores from s
IdentifierEnd(s) ==
    CHOOSE e \in s..Len(input) :
        /\ \A j \in s..e :
              input[j] \in AsciiLetters \cup AsciiDigits \cup {UNDERSCORE}
        /\ At(e + 1) \notin AsciiLetters \cup AsciiDigits \cup {UNDERSCORE}

HasQuoteFrom(k) == \E j \in k..Len(input) : input[j] = DOUBLE_QUOTES

\* the position of the first double-quote at or behind position k
FirstQuoteFrom(k) ==
    CHOOSE j \in k..Len(input) :
        /\ input[j] = DOUBLE_QUOTES
        /\ \A m \in k..(j - 1) : input[m] # DOUBLE_QUOTES

C13_WitnessSymbol ==
    /\ input = <<"a", "b", "\"", "x", "\"">>
    /\ results = <<Ok(Symbol(<<"a", "b">>)), Ok(StringValue(<<"x">>)),
                   NoMoreTokens>>


\* the punctuation that is a token by itself
DelimiterToken ==
       ("(" :> "LeftParens") @@ (")" :> "RightParens")
    @@ ("{" :> "LeftCurlyBracket") @@ ("}" :> "RightCurlyBracket")
    @@ ("[" :> "LeftSquareBracket") @@ ("]" :> "RightSquareBracket")
    @@ (";" :> "Semicolon") @@ ("," :> "Comma") @@ ("." :> "MemberAccessor")

\* C14: a call that starts at one of ( ) { } [ ] ; , . returns the token of
\* that character and uses that character only; at a colon followed by a
\* colon it returns StaticAccessor and uses both; at a colon followed by
\* anything else, or by nothing, it returns an error and no token.
C14_Delimiters ==
    \A i \in 1..Calls :
        LET s == spans[i].start
            c == At(s)
        IN  /\ c \in DOMAIN DelimiterToken =>
                 /\ handler[i] = "delimiter"
                 /\ results[i] = Ok(Tok(DelimiterToken[c]))
                 /\ spans[i].stop = s
                 /\ i = Calls => consumed = s
            /\ (c = ":" /\ At(s + 1) = ":") =>
                 /\ handler[i] = "delimiter"
                 /\ results[i] = Ok(Tok("StaticAccessor"))
                 /\ spans[i].stop = s + 1
                 /\ i = Calls => consumed = s + 1
            /\ (c = ":" /\ At(s + 1) # ":") =>
                 /\ handler[i] = "delimiter"
                 /\ results[i] = Err("Could not parse delimiter")
                 /\ i = Calls => consumed = s

C14_Witness ==
    /\ input = <<":", "a", ":">>
    /\ results = <<Err("Could not parse delimiter"), Ok(Symbol(<<"a">>)),
                   Err("Could not parse delimiter"), NoMoreTokens>>

C14_WitnessAll ==
    /\ input = <<"(", ")", "{", "}", "[", "]", ";", ",", ".", ":", ":">>
    /\ results = <<Ok(Tok("LeftParens")), Ok(Tok("RightParens")),
                   Ok(Tok("LeftCurlyBracket")), Ok(Tok("RightCurlyBracket")),
                   Ok(Tok("LeftSquareBracket")), Ok(Tok("RightSquareBracket")),
                   Ok(Tok("Semicolon")), Ok(Tok("Comma")),
                   Ok(Tok("MemberAccessor")), Ok(Tok("StaticAccessor")),
                   NoMoreTokens>>


\* C15: a call that starts at a minus sign goes to the operator handler and
\* returns FnReturnTypeDelim before a greater-than sign and Subtract before
\* anything else or nothing; the delimiter handler never sees a minus sign,
\* and -5 gives Subtract and then IntValue(5).
C15_MinusIsAnOperator ==
    /\ \A i \in 1..Calls :
          LET s == spans[i].start
          IN  /\ At(s) = "-" =>
                   /\ handler[i] = "operator"
                   /\ results[i] = IF At(s + 1) = ">"
                                   THEN Ok(Tok("FnReturnTypeDelim"))
                                   ELSE Ok(Tok("Subtract"))
              /\ handler[i] = "delimiter" => At(s) # "-"
    /\ (input = <<"-", "5">> /\ Calls >= 2) =>
          SubSeq(results, 1, 2) = <<Ok(Tok("Subtract")), Ok(IntValue(5))>>

C15_Witness ==
    /\ input = <<"-", "5">>
    /\ results = <<Ok(Tok("Subtract")), Ok(IntValue(5)), NoMoreTokens>>


\* the positions from..to that hold a line feed
LineFeeds(from, to) == {j \in from..to : input[j] = "\n"}

\* the largest member of a non-empty set of positions
Latest(S) == CHOOSE j \in S : \A k \in S : k <= j

\* C16: a string or byte-string token with newlines in its payload leaves
\* the row counter raised by one for each of them, and the column counter
\* counting from the last of them.
C16_RowCountsNewlinesInLiteral ==
    \A i \in 1..Calls :
        (IsToken(i, "StringValue") \/ IsToken(i, "BytesValue")) =>
            LET open == IF IsToken(i, "StringValue") THEN spans[i].start
                        ELSE spans[i].start + 1
                close == spans[i].stop
                feeds == LineFeeds(open + 1, close - 1)
                last == IF IsToken(i, "StringValue") THEN close
                        ELSE IF close < Len(input) THEN close + 1 ELSE close
            IN  /\ positions[i].return.row =
                     positions[i].dispatch.row + Cardinality(feeds)
                /\ feeds # {} =>
                     positions[i].return.column = last - Latest(feeds)


\* C17: over the whitespace a call skips, the row counter goes up by one for
\* each line feed, a \r\n pair counting once through its line feed and a
\* bare \r not at all; the column counter restarts from zero at the last of
\* them, so that at the dispatch it holds only what the code adds behind it:
\* two for every skipped character and one for the character reached.
C17_RowCountsLineBreaksBetweenTokens ==
    \A i \in 1..Calls :
        LET feeds == LineFeeds(spans[i].first, spans[i].start - 1)
            behind == (spans[i].start - 1) - Latest(feeds)
            reached == IF spans[i].start <= Len(input) THEN 1 ELSE 0
        IN  /\ positions[i].dispatch.row =
                 positions[i].entry.row + Cardinality(feeds)
            /\ feeds # {} =>
                 positions[i].dispatch.column = 2 * behind + reached

C17_Witness ==
    /\ input = <<" ", "\n", "\r", "\n", " ", "\r", " ", "i">>
    /\ results = <<Ok(Symbol(<<"i">>)), NoMoreTokens>>
    /\ row = 2


\* every call that did not signal exhaustion used at least one character,
\* and the exhaustion signal has come once there were more calls than
\* characters
ProgressOfCalls ==
    /\ \A i \in 1..Calls :
          results[i] # NoMoreTokens => spans[i].first <= spans[i].stop
    /\ Calls > Len(input) =>
          \E i \in 1..(Len(input) + 1) : results[i] = NoMoreTokens

\* C18: a caller that keeps calling next_token, after error returns too, gets
\* the exhaustion signal after finitely many calls: every call returns, every
\* call but the exhausted one moves on in the input, and so the signal comes
\* with call number Len(input) + 1 at the latest.
C18_ExhaustionIsReached == ~Panicked /\ ProgressOfCalls


LiteralWords ==
    {<<"t", "r", "u", "e">>, <<"f", "a", "l", "s", "e">>,
     <<"n", "u", "l", "l">>}

\* C19: each of the words true, false and null gives a token that carries
\* no payload, of a variant of its own.
C19_BareLiteralKeywords ==
    (input \in LiteralWords /\ Calls >= 1) =>
        /\ IsOk(1)
        /\ DOMAIN results[1].token = {"type"}
        /\ \A w \in LiteralWords \ {input} :
              Identifiers[w].type # results[1].token.type


\* the current character is the one at the last position taken from the input
AtLastRead == consumed >= 1 /\ current_chr = input[consumed]

\* the token of the last call is spelled by the input from its start to `to`
LastTokenEndsAt(to) ==
    /\ Calls >= 1
    /\ IsOk(Calls)
    /\ Spells(SubSeq(input, spans[Calls].start, to), results[Calls].token)

\* the flag a handler leaves behind with a token
FlagOfHandler ==
    (Calls >= 1 /\ IsOk(Calls)) =>
        /\ handler[Calls] \in {"identifier", "number"} =>
              ~current_char_processed
        /\ handler[Calls] \in {"string", "char", "operator", "delimiter"} =>
              current_char_processed

\* with the flag cleared the current character is absent or the first one
\* that is in no token yet
HandOffUnprocessed ==
    ~current_char_processed =>
        /\ Calls >= 1
        /\ current_chr = None \/ AtLastRead
        /\ IsOk(Calls) => LastTokenEndsAt(Position(Self) - 1)
        /\ \A i \in 1..Calls : spans[i].stop < Position(Self)

\* C20 as stated: at the entry to every call, with the flag set the current
\* character is absent or the last character of the token returned before;
\* with the flag cleared it is absent or the first character in no token
\* yet; identifier, number and byte-string tokens leave the flag cleared,
\* string, char, operator and delimiter tokens leave it set.
C20_HandOffAfterToken ==
    ~Panicked =>
        /\ current_char_processed =>
              current_chr = None \/ (AtLastRead /\ LastTokenEndsAt(consumed))
        /\ HandOffUnprocessed
        /\ FlagOfHandler

\* C20 as amended: with the flag set the current character is absent or the
\* last character the call before read, which is the last character of its
\* token or, after an error return, of the attempt that failed.
C20_HandOffAfterTokenOrError ==
    ~Panicked =>
        /\ current_char_processed =>
              \/ current_chr = None
              \/ /\ AtLastRead
                 /\ Calls >= 1
                 /\ IsOk(Calls) => LastTokenEndsAt(consumed)
                 /\ ~IsOk(Calls) =>
                       /\ results[Calls].kind = "Err"
                       /\ spans[Calls].start <= consumed
                       /\ spans[Calls].stop = consumed
        /\ HandOffUnprocessed
        /\ FlagOfHandler

C20_Witness ==
    /\ input = <<"i", "=", "@">>
    /\ results = <<Ok(Symbol(<<"i">>)), Ok(Tok("Assignment")),
                   Err("Failed to lex source")>>
    /\ current_char_processed
    /\ current_chr = "@"


\* the handler the fixed order of the dispatch gives a character
HandlerOf(c) ==
    IF c = None THEN "none"
    ELSE IF c \in AsciiLetters \cup {"_"} THEN "identifier"
    ELSE IF c \in AsciiDigits THEN "number"
    ELSE IF c = "\"" THEN "string"
    ELSE IF c = "'" THEN "char"
    ELSE IF c \in Operators THEN "operator"
    ELSE IF c \in Delimiters THEN "delimiter"
    ELSE "unknown"

\* C21: every call skips the whitespace in front of it and routes the first
\* character behind it to the handler of its class, in the order letter or
\* underscore, digit, double quote, single quote, operator, delimiter; a
\* character of no class gives the error "Failed to lex source", and that
\* error comes from nowhere else.
C21_Dispatch ==
    \A i \in 1..Calls :
        /\ Blank(spans[i].first, spans[i].start - 1)
        /\ At(spans[i].start) \notin WhiteSpace
        /\ handler[i] = HandlerOf(At(spans[i].start))
        /\ handler[i] = "unknown" <=> results[i] = Err("Failed to lex source")

C21_Witness ==
    /\ input = <<"a", "U+00E9", "?", "5", "#">>
    /\ handler = <<"identifier", "unknown", "unknown", "number", "unknown">>
    /\ results[2] = Err("Failed to lex source")
    /\ results[5] = Err("Failed to lex source")

C21_WitnessAll ==
    /\ Len(input) = 17
    /\ input[17] = "#"
    /\ handler = <<"identifier", "number", "string", "char", "operator",
                   "delimiter", "unknown", "none">>


\* C22: no call returns "Could not parse operator", and a call returns
\* "Could not parse delimiter" only when it starts at a colon that is not
\* followed by a second colon: every character routed to the operator or
\* the delimiter handler has an arm of its own there.
C22_FallThroughUnreachable ==
    \A i \in 1..Calls :
        /\ results[i] # Err("Could not parse operator")
        /\ results[i] = Err("Could not parse delimiter") =>
              /\ At(spans[i].start) = ":"
              /\ At(spans[i].start + 1) # ":"
        /\ handler[i] = "operator" => IsOk(i)
        /\ (handler[i] = "delimiter" /\ At(spans[i].start) # ":") => IsOk(i)

C22_Witness ==
    /\ input = <<"{", "}", "[", "]", "(", ")", ",", ";", ":", ":", ".", ":">>
    /\ Calls = 11
    /\ \A i \in 1..10 : IsOk(i) /\ handler[i] = "delimiter"
    /\ results[11] = Err("Could not parse delimiter")

C22_WitnessOperators ==
    /\ Len(input) = 25
    /\ input[25] = "~"
    /\ Calls = 13
    /\ \A i \in 1..13 : IsOk(i) /\ handler[i] = "operator"


\* C23: the name of every Symbol token returned so far is not empty, starts
\* with an ASCII letter or an underscore, holds ASCII letters, digits and
\* underscores only, and is no key of the identifiers map.
C23_SymbolNames ==
    \A i \in 1..Calls :
        IsToken(i, "Symbol") =>
            LET name == results[i].token.name
            IN  /\ name # <<>>
                /\ name[1] \in AsciiLetters \cup {"_"}
                /\ \A k \in 1..Len(name) :
                      name[k] \in AsciiLetters \cup AsciiDigits \cup {"_"}
                /\ name \notin DOMAIN Identifiers

\* a symbol that starts with a keyword
C23_Witness ==
    /\ input = <<"i", "f", "5">>
    /\ results = <<Ok(Symbol(<<"i", "f", "5">>)), NoMoreTokens>>

\* a symbol cut off by a letter outside ASCII
C23_WitnessCut ==
    /\ input = <<"a", "U+00E9", "?", "5", "#">>
    /\ Calls >= 1
    /\ results[1] = Ok(Symbol(<<"a">>))


\* C24: a call signals exhaustion only when everything it had left of the
\* input is whitespace, and every call after it signals exhaustion again,
\* returns no token and leaves row and column as they were at its entry.
C24_ExhaustionIsSticky ==
    \A i \in 1..Calls :
        results[i] = NoMoreTokens =>
            /\ Blank(spans[i].first, Len(input))
            /\ \A j \in (i + 1)..Calls :
                  /\ results[j] = NoMoreTokens
                  /\ positions[j].return = positions[j].entry
                  /\ positions[j].entry = positions[i].return

C24_Witness ==
    /\ input = <<"i", " ">>
    /\ results = <<Ok(Symbol(<<"i">>)), NoMoreTokens, NoMoreTokens>>
    /\ positions[3].return = positions[2].return


\* the line feeds the row counter has counted: those in the whitespace the
\* calls so far skipped
CountedLineFeeds ==
    UNION {LineFeeds(spans[i].first, spans[i].start - 1) : i \in 1..Calls}

\* the position of the newline counted last, 0 when none was counted
LastCounted == IF CountedLineFeeds = {} THEN 0 ELSE Latest(CountedLineFeeds)

\* C25: after any calls, column is the number of characters pulled from
\* the source behind the newline the row counter counted last (or since
\* construction): every character pulled, whitespace included, adds one.
C25_ColumnCountsCharacters ==
    ~Panicked => column = consumed - LastCounted


====
